---- MODULE Spec2Model ----
(***************************************************************************)
(* Model of OllamaMCPClient (src/src/clients/ollama_client.py): the        *)
(* session registry, the tool catalog, the recursive streaming drive loop  *)
(* and the tool dispatcher.                                                *)
(*                                                                         *)
(* Strings are sequences of lexemes: "wallet/topup_saldo" is               *)
(* <<"wallet", "/", "topup_saldo">>.  The lexemes "/" and "token" stand    *)
(* for the characters the code searches for (str.split("/") and            *)
(* 'token' in str(tool_args)); no other lexeme contains them.              *)
(* Optional values are sequences of length 0 (None) or 1.                  *)
(* A Python dict is the sequence of its items in insertion order.          *)
(***************************************************************************)
EXTENDS Naturals, Sequences, FiniteSets

VARIABLES
    selected_server,     \* self.selected_server: names of the selected providers, in dict order
    messages,            \* self.messages
    user_token,          \* self.user_token (None: attribute not set yet)
    pc,                  \* per process_message call: where its generator is suspended
    exc,                 \* per call: the exception that ended the generator
    tool_chain,          \* per call: the tool_chain argument of _recursive_prompt
    tool_calls,          \* per call: part.message.tool_calls of the fragment being handled
    idx,                 \* per call: position in tool_calls / tool_messages
    pending,             \* per call: the call_tool request awaiting its response
    tool_messages,       \* per call: the messages list of _tool_call
    tool_message_count,  \* per call: tool_message_count of the current _recursive_prompt frame
    events,              \* per call: ChatResponse values yielded to the consumer so far
    chat_request,        \* per call: arguments of the self.client.chat request being awaited
    nreq,                \* per call: number of self.client.chat requests made
    emitted,             \* per call: tool-call requests the model emitted in the current turn
    turn_start,          \* per call: Len(events) when the current model turn began
    calls,               \* call_tool requests sent to providers since the last prepare_prompt
    select_arg           \* the argument of the latest select_server call (None: never called)

vars == <<selected_server, messages, user_token, pc, exc, tool_chain, tool_calls, idx,
          pending, tool_messages, tool_message_count, events, chat_request, nreq,
          emitted, turn_start, calls, select_arg>>

frame == <<tool_chain, tool_calls, idx, pending, tool_messages, tool_message_count>>

(***************************************************************************)
(* Bounds                                                                  *)
(***************************************************************************)
MaxUserMsgs == 1    \* most user messages in one history
MaxToolMsgs == 2    \* most tool messages in one history
MaxEvents == 4      \* longest event stream of one process_message call explored
MaxBatch == 2       \* most tool-call requests in one stream fragment
MaxEmitted == 2     \* most tool-call requests the model emits in one turn

Tasks == {1, 2}     \* process_message calls that can be in flight
Solo == {1}         \* the single consumer of Spec

(***************************************************************************)
(* Values                                                                  *)
(***************************************************************************)
None == <<>>
Some(x) == <<x>>

SYSTEM_PROMPT == <<"SYSTEM_PROMPT">>

Range(s) == {s[i] : i \in 1..Len(s)}

\* `sub in s` for a one-lexeme needle
Contains(s, lexeme) == \E i \in 1..Len(s) : s[i] = lexeme

\* s.split("/")
RECURSIVE Split(_)
Split(s) ==
    IF \A i \in 1..Len(s) : s[i] # "/"
    THEN <<s>>
    ELSE LET i == CHOOSE n \in 1..Len(s) : s[n] = "/" /\ \A j \in 1..(n - 1) : s[j] # "/"
         IN  <<SubSeq(s, 1, i - 1)>> \o Split(SubSeq(s, i + 1, Len(s)))

\* str(d) of a dict with string keys and string values
RECURSIVE PyStrItems(_)
PyStrItems(d) ==
    IF d = <<>> THEN <<>>
    ELSE <<"'">> \o Head(d).k \o <<"': '">> \o Head(d).v \o <<"'">>
         \o (IF Len(d) > 1 THEN <<", ">> ELSE <<>>) \o PyStrItems(Tail(d))

PyStr(d) == <<"{">> \o PyStrItems(d) \o <<"}">>

HasKey(d, key) == \E i \in 1..Len(d) : d[i].k = key

\* {**d, key: value}
DictSet(d, key, value) ==
    IF HasKey(d, key)
    THEN [i \in 1..Len(d) |-> IF d[i].k = key THEN [k |-> key, v |-> value] ELSE d[i]]
    ELSE Append(d, [k |-> key, v |-> value])

(***************************************************************************)
(* Session registry and tool catalog                                       *)
(***************************************************************************)
\* The providers of the configuration, each with the tools its list_tools() returns
Config ==
    << [name  |-> <<"wallet">>,
        tools |-> << [name |-> <<"topup_saldo">>, inputSchema |-> <<"amount", "token">>],
                     [name |-> <<"get_my_balance">>, inputSchema |-> <<"token">>] >>],
       [name  |-> <<"places">>,
        tools |-> << [name |-> <<"nearby">>, inputSchema |-> <<"latitude", "longitude">>],
                     [name |-> <<"menu", "/", "get">>, inputSchema |-> <<"restaurant_id">>] >>] >>

\* _connect_client: every tool renamed to f"{name}/{tool.name}"
connect_client(name, listed) ==
    [i \in 1..Len(listed) |->
        [name |-> name \o <<"/">> \o listed[i].name, parameters |-> listed[i].inputSchema]]

\* self.servers after _connect_to_multiple_servers, in insertion order
servers ==
    [i \in 1..Len(Config) |->
        [name |-> Config[i].name, tools |-> connect_client(Config[i].name, Config[i].tools)]]

ServerNames == [i \in 1..Len(servers) |-> servers[i].name]

Server(name) == CHOOSE s \in Range(servers) : s.name = name

RECURSIVE ChainTools(_)
ChainTools(sel) ==
    IF sel = <<>> THEN <<>> ELSE Server(Head(sel)).tools \o ChainTools(Tail(sel))

\* a catalog that ignores the selection
get_tools_all(sel) == ChainTools(ServerNames)

\* get_tools()
get_tools(sel) == ChainTools(sel)

\* the dict comprehension of select_server
SelectedBy(names) ==
    LET Named(n) == n \in Range(names) IN SelectSeq(ServerNames, Named)

(***************************************************************************)
(* Inputs                                                                  *)
(***************************************************************************)
UserMessages == { <<"hi">> }
\* the tokens consumer c passes to process_message
TokensOf(c) == IF c = 1 THEN { <<>>, <<"T1">> } ELSE { <<"T2">> }

SelectChoices ==
    { << <<"places">>, <<"wallet">> >>, << <<"ghost">>, <<"places">> >> }

ArgsBogus   == << [k |-> <<"amount">>, v |-> <<"5">>], [k |-> <<"token">>, v |-> <<"bogus">>] >>
ArgsAmount  == << [k |-> <<"amount">>, v |-> <<"5">>] >>
ArgsKeyword == << [k |-> <<"keyword">>, v |-> <<"token">>] >>

\* tool-call requests the model may emit
Requests ==
    { [name |-> <<"wallet", "/", "topup_saldo">>, arguments |-> ArgsBogus],
      [name |-> <<"wallet", "/", "topup_saldo">>, arguments |-> ArgsAmount],
      [name |-> <<"places", "/", "nearby">>,      arguments |-> ArgsKeyword],
      [name |-> <<"places">>,                     arguments |-> <<>>] }

Batches == UNION { [1..n -> Requests] : n \in 0..MaxBatch }

\* fragments of the model stream
Parts ==
    [content : { <<>> }, tool_calls : Batches]
        \cup [content : { <<"txt">> }, tool_calls : {b \in Batches : Len(b) <= 1}]

ArgsMenu == << [k |-> <<"restaurant_id">>, v |-> <<"7">>] >>

\* the fragments of a model that asks for the menu tool, and may fail to name it
PartsSlash ==
    { [content |-> <<"txt">>, tool_calls |-> <<>>],
      [content |-> <<>>,
       tool_calls |-> << [name |-> <<"places", "/", "menu", "/", "get">>,
                          arguments |-> ArgsMenu] >>],
      [content |-> <<>>,
       tool_calls |-> << [name |-> <<"places", "/", "nearby">>, arguments |-> ArgsKeyword],
                         [name |-> <<"places">>, arguments |-> <<>>] >>] }

\* two consumers of the same client: what each says, and the token each passes
UserMessagesOf(c) == IF c = 1 THEN { <<"hi">> } ELSE { <<"yo">> }
TokensConc(c) == TokensOf(c) \ { <<>> }

PartsConc ==
    { [content |-> <<"txt">>, tool_calls |-> <<>>],
      [content |-> <<>>,
       tool_calls |-> << [name |-> <<"wallet", "/", "topup_saldo">>,
                          arguments |-> ArgsBogus] >>] }

\* the model asks for a tool in the first consumer's conversation only
PartsConcOf(c) == IF c = 1 THEN PartsConc ELSE { [content |-> <<"txt">>, tool_calls |-> <<>>] }

\* a consumer that may stop iterating: what it says, and the fragments of a
\* model whose requests all name a tool of a selected provider
UserMessagesAbandon == { <<"hi">>, <<"yo">> }

PartsAbandon ==
    { [content |-> <<"txt">>, tool_calls |-> <<>>],
      [content |-> <<>>,
       tool_calls |-> << [name |-> <<"wallet", "/", "topup_saldo">>, arguments |-> ArgsAmount],
                         [name |-> <<"places", "/", "nearby">>, arguments |-> ArgsKeyword] >>] }

\* what call_tool may do: return a text or raise
Outcomes == { [ok |-> TRUE, text |-> <<"ok">>], [ok |-> FALSE, text |-> <<"boom">>] }

(***************************************************************************)
(* Records                                                                 *)
(***************************************************************************)
Message(role, content) == [role |-> role, content |-> content]

ChatResponse(role, content, tool_name, tool_status, chain) ==
    [role |-> role, content |-> content, tool_name |-> tool_name,
     tool_status |-> tool_status, tool_chain |-> chain]

\* `tool_chain if tool_chain else None`
ChainOrNone(chain) == IF chain # <<>> THEN Some(chain) ELSE None

AssistantEvent(content, chain) ==
    ChatResponse("assistant", content, None, None, ChainOrNone(chain))

StatusEvent(tool_name, chain) ==
    ChatResponse("status", <<"Calling tool: ">> \o tool_name, Some(tool_name),
                 Some("calling"), Some(Append(chain, tool_name)))

ToolEvent(tool_message, chain) ==
    ChatResponse("tool", tool_message, None, None, ChainOrNone(chain))

\* a message that shows the arguments the model supplied
SuccessMessageModelArgs(request, tool_args, text) ==
    <<"tool: ">> \o request.name \o <<"\nargs: ">> \o PyStr(request.arguments)
        \o <<"\nreturn: ">> \o text

\* f"tool: {tool.function.name}\nargs: {tool_args}\nreturn: {text}"
SuccessMessage(request, tool_args, text) ==
    <<"tool: ">> \o request.name \o <<"\nargs: ">> \o PyStr(tool_args)
        \o <<"\nreturn: ">> \o text

\* f"Error in tool: {tool.function}\nargs: {tool_args}\n{e}"
ErrorMessage(request, tool_args, e) ==
    <<"Error in tool: ">> \o <<"name='">> \o request.name \o <<"' arguments=">>
        \o PyStr(request.arguments) \o <<"\nargs: ">> \o PyStr(tool_args) \o <<"\n">> \o e

NoRequest == [name |-> <<>>, arguments |-> <<>>]
NoPending == [request |-> NoRequest, session |-> <<>>, tool_name |-> <<>>, tool_args |-> <<>>]
NoChat == [messages |-> <<>>, tools |-> <<>>]

\* `self.user_token` is set and non-empty
TokenHeld == user_token # None /\ user_token[1] # <<>>

\* an injection that keeps a token the model supplied: {'token': t, **tool_args}
InjectTokenKeepCaller(arguments) ==
    IF TokenHeld /\ Contains(PyStr(arguments), "token") /\ ~HasKey(arguments, <<"token">>)
    THEN DictSet(arguments, <<"token">>, user_token[1])
    ELSE arguments

\* lines 250-252: the arguments after the token injection
InjectToken(arguments) ==
    IF TokenHeld /\ Contains(PyStr(arguments), "token")
    THEN DictSet(arguments, <<"token">>, user_token[1])
    ELSE arguments

CountRole(history, role) == Cardinality({i \in 1..Len(history) : history[i].role = role})

\* the number of occurrences of message m in history
CountMessage(history, m) == Cardinality({ i \in 1..Len(history) : history[i] = m })

\* a lookup in the registry of every connected provider
IsSelectedAny(name) == \E i \in 1..Len(ServerNames) : ServerNames[i] = name

IsSelected(name) == \E i \in 1..Len(selected_server) : selected_server[i] = name

(***************************************************************************)
(* Initial state: after OllamaMCPClient.create(config)                     *)
(***************************************************************************)
Init ==
    /\ selected_server = ServerNames        \* "Default to select all"
    /\ messages = <<>>
    /\ user_token = None
    /\ pc = [c \in Tasks |-> "idle"]
    /\ exc = [c \in Tasks |-> "none"]
    /\ tool_chain = [c \in Tasks |-> <<>>]
    /\ tool_calls = [c \in Tasks |-> <<>>]
    /\ idx = [c \in Tasks |-> 0]
    /\ pending = [c \in Tasks |-> NoPending]
    /\ tool_messages = [c \in Tasks |-> <<>>]
    /\ tool_message_count = [c \in Tasks |-> 0]
    /\ events = [c \in Tasks |-> <<>>]
    /\ chat_request = [c \in Tasks |-> NoChat]
    /\ nreq = [c \in Tasks |-> 0]
    /\ emitted = [c \in Tasks |-> <<>>]
    /\ turn_start = [c \in Tasks |-> 0]
    /\ calls = <<>>
    /\ select_arg = None

(***************************************************************************)
(* Steps shared by the actions                                             *)
(***************************************************************************)
\* the generator of call c ends (returns, raises or is closed): its frame and
\* its event stream are gone
Finish(c, how, e) ==
    /\ pc' = [pc EXCEPT ![c] = how]
    /\ exc' = [exc EXCEPT ![c] = e]
    /\ tool_calls' = [tool_calls EXCEPT ![c] = <<>>]
    /\ idx' = [idx EXCEPT ![c] = 0]
    /\ pending' = [pending EXCEPT ![c] = NoPending]
    /\ tool_messages' = [tool_messages EXCEPT ![c] = <<>>]
    /\ tool_message_count' = [tool_message_count EXCEPT ![c] = 0]
    /\ events' = [events EXCEPT ![c] = <<>>]
    /\ chat_request' = [chat_request EXCEPT ![c] = NoChat]
    /\ nreq' = [nreq EXCEPT ![c] = 0]
    /\ emitted' = [emitted EXCEPT ![c] = <<>>]
    /\ turn_start' = [turn_start EXCEPT ![c] = 0]

\* lines 191-197: self.client.chat(messages=self.messages, tools=self.get_tools())
Chat(c, history) ==
    /\ chat_request' = [chat_request EXCEPT ![c] =
                           [messages |-> history, tools |-> get_tools(selected_server)]]
    /\ nreq' = [nreq EXCEPT ![c] = @ + 1]

Emit(c, event) == events' = [events EXCEPT ![c] = Append(@, event)]

\* lines 244-257 for tool_calls[k], up to the await of call_tool; msgs is the
\* messages list built so far, log the record of the requests sent so far
StartTool(c, k, msgs, log) ==
    LET tool  == tool_calls[c][k]
        split == Split(tool.name)
    IN  IF ~IsSelected(split[1])
        THEN /\ Finish(c, "raised", "KeyError")        \* self.selected_server[split[0]]
             /\ calls' = log
        ELSE IF Len(split) < 2
        THEN /\ Finish(c, "raised", "IndexError")      \* split[1]
             /\ calls' = log
        ELSE LET tool_args == InjectToken(tool.arguments)
                 sent == [request |-> tool, session |-> split[1],
                          tool_name |-> split[2], tool_args |-> tool_args]
             IN  /\ pc' = [pc EXCEPT ![c] = "tool"]
                 /\ idx' = [idx EXCEPT ![c] = k]
                 /\ tool_messages' = [tool_messages EXCEPT ![c] = msgs]
                 /\ pending' = [pending EXCEPT ![c] = sent]
                 /\ calls' = Append(log, [task |-> c, sent |-> sent, result |-> "pending",
                                          text |-> <<>>])
                 /\ UNCHANGED <<exc, tool_calls, tool_message_count, events, chat_request,
                                nreq, emitted, turn_start>>

(***************************************************************************)
(* Conversation control surface                                            *)
(***************************************************************************)
\* the consumer `by` is running: its generator is not awaiting the model or a provider
HasControl(by) == pc[by] \notin {"chat", "stream", "tool"}

\* a prepare_prompt that starts the new conversation after the old messages
prepare_prompt_append(by) ==
    /\ HasControl(by)
    /\ messages' = Append(messages, Message("system", SYSTEM_PROMPT))
    /\ user_token' = Some(<<>>)
    /\ calls' = <<>>
    /\ UNCHANGED <<select_arg, selected_server, pc, exc, frame, events, chat_request, nreq,
                   emitted, turn_start>>

\* lines 166-169
prepare_prompt(by) ==
    /\ HasControl(by)
    /\ messages' = << Message("system", SYSTEM_PROMPT) >>
    /\ user_token' = Some(<<>>)
    /\ calls' = <<>>
    /\ UNCHANGED <<select_arg, selected_server, pc, exc, frame, events, chat_request, nreq,
                   emitted, turn_start>>

\* lines 161-164
select_server(by, names) ==
    /\ HasControl(by)
    /\ selected_server' = SelectedBy(names)
    /\ select_arg' = Some(names)
    /\ UNCHANGED <<messages, user_token, pc, exc, frame, events, chat_request, nreq,
                   emitted, turn_start, calls>>

\* lines 171-176 and 179-197: the first step of the generator, up to the await
\* of self.client.chat
process_message(c, message, token) ==
    /\ pc[c] \in {"idle", "done", "raised", "closed"}
    /\ CountMessage(messages, Message("user", message)) < MaxUserMsgs
    /\ messages' = Append(messages, Message("user", message))
    /\ user_token' = Some(token)
    /\ tool_chain' = [tool_chain EXCEPT ![c] = <<>>]
    /\ pc' = [pc EXCEPT ![c] = "chat"]
    /\ exc' = [exc EXCEPT ![c] = "none"]
    /\ events' = [events EXCEPT ![c] = <<>>]
    /\ chat_request' = [chat_request EXCEPT ![c] =
                           [messages |-> messages', tools |-> get_tools(selected_server)]]
    /\ nreq' = [nreq EXCEPT ![c] = 1]
    /\ emitted' = [emitted EXCEPT ![c] = <<>>]
    /\ turn_start' = [turn_start EXCEPT ![c] = 0]
    /\ UNCHANGED <<select_arg, selected_server, tool_calls, idx, pending, tool_messages,
                   tool_message_count, calls>>

\* the consumer stops iterating and the suspended generator is closed
aclose(c) ==
    /\ pc[c] \in {"y_assistant", "y_status", "y_tool"}
    /\ Finish(c, "closed", "none")
    /\ UNCHANGED <<select_arg, selected_server, messages, user_token, tool_chain, calls>>

(***************************************************************************)
(* The drive loop, _recursive_prompt, one action per suspension point      *)
(***************************************************************************)
\* line 191 returns the stream; line 199
chat_returns(c) ==
    /\ pc[c] = "chat"
    /\ pc' = [pc EXCEPT ![c] = "stream"]
    /\ tool_message_count' = [tool_message_count EXCEPT ![c] = 0]
    /\ emitted' = [emitted EXCEPT ![c] = <<>>]
    /\ turn_start' = [turn_start EXCEPT ![c] = Len(events[c])]
    /\ chat_request' = [chat_request EXCEPT ![c] = NoChat]
    /\ UNCHANGED <<select_arg, selected_server, messages, user_token, exc, tool_chain, tool_calls,
                   idx, pending, tool_messages, events, nreq, calls>>

\* a drive loop that requests the model again when the request fails
chat_raises_retry(c) ==
    /\ pc[c] = "chat"
    /\ exc' = [exc EXCEPT ![c] = "ModelError"]
    /\ Chat(c, messages)
    /\ UNCHANGED <<select_arg, selected_server, messages, user_token, pc, frame, events, emitted,
                   turn_start, calls>>

\* line 191 raises: nothing catches it
chat_raises(c) ==
    /\ pc[c] = "chat"
    /\ Finish(c, "raised", "ModelError")
    /\ UNCHANGED <<select_arg, selected_server, messages, user_token, tool_chain, calls>>

\* line 200 raises while reading the stream: nothing catches it
stream_raises(c) ==
    /\ pc[c] = "stream"
    /\ Finish(c, "raised", "ModelError")
    /\ UNCHANGED <<select_arg, selected_server, messages, user_token, tool_chain, calls>>

\* lines 200-224: the stream delivers a fragment
stream_part(c, part) ==
    /\ pc[c] = "stream"
    /\ Len(events[c]) + (IF part.content # <<>> THEN 1 ELSE 2 * Len(part.tool_calls))
          <= MaxEvents
    /\ part.content = <<>> =>
          CountRole(messages, "tool") + Len(part.tool_calls) <= MaxToolMsgs
    /\ Len(emitted[c]) + Len(part.tool_calls) <= MaxEmitted
    /\ emitted' = [emitted EXCEPT ![c] = @ \o part.tool_calls]
    /\ IF part.content # <<>>
       THEN \* line 201
            /\ Emit(c, AssistantEvent(part.content, tool_chain[c]))
            /\ pc' = [pc EXCEPT ![c] = "y_assistant"]
            /\ UNCHANGED <<tool_calls, idx>>
       ELSE IF part.tool_calls # <<>>
       THEN \* line 209, first pass of the loop of line 213
            /\ Emit(c, StatusEvent(part.tool_calls[1].name, tool_chain[c]))
            /\ pc' = [pc EXCEPT ![c] = "y_status"]
            /\ tool_calls' = [tool_calls EXCEPT ![c] = part.tool_calls]
            /\ idx' = [idx EXCEPT ![c] = 1]
       ELSE UNCHANGED <<events, pc, tool_calls, idx>>
    /\ UNCHANGED <<select_arg, selected_server, messages, user_token, exc, tool_chain, pending,
                   tool_messages, tool_message_count, chat_request, nreq, turn_start,
                   calls>>

\* the consumer resumes the generator after an assistant chunk
resume_assistant(c) ==
    /\ pc[c] = "y_assistant"
    /\ pc' = [pc EXCEPT ![c] = "stream"]
    /\ UNCHANGED <<select_arg, selected_server, messages, user_token, exc, frame, events,
                   chat_request, nreq, emitted, turn_start, calls>>

\* the consumer resumes after a status event: next pass of line 213, or
\* line 226 enters _tool_call
resume_status(c) ==
    /\ pc[c] = "y_status"
    /\ IF idx[c] < Len(tool_calls[c])
       THEN /\ Emit(c, StatusEvent(tool_calls[c][idx[c] + 1].name, tool_chain[c]))
            /\ idx' = [idx EXCEPT ![c] = @ + 1]
            /\ UNCHANGED <<pc, exc, tool_calls, pending, tool_messages,
                           tool_message_count, calls>>
            /\ UNCHANGED <<chat_request, nreq, emitted, turn_start>>
       ELSE StartTool(c, 1, <<>>, calls)
    /\ UNCHANGED <<select_arg, selected_server, messages, user_token, tool_chain>>

\* the record of requests with the pending request of call c answered
Answered(c, outcome) ==
    [i \in 1..Len(calls) |->
        IF calls[i].task = c /\ calls[i].result = "pending"
        THEN [calls[i] EXCEPT !.result = IF outcome.ok THEN "returned" ELSE "raised",
                              !.text = outcome.text]
        ELSE calls[i]]

\* lines 257-265: call_tool returns or raises; then the next tool of the
\* batch, or _tool_call returns and lines 227-229 yield the first result
call_tool_returns(c, outcome) ==
    /\ pc[c] = "tool"
    /\ LET p == pending[c]
           message == IF outcome.ok
                      THEN SuccessMessage(p.request, p.tool_args, outcome.text)
                      ELSE ErrorMessage(p.request, p.tool_args, outcome.text)
           msgs == Append(tool_messages[c], message)
       IN  IF idx[c] < Len(tool_calls[c])
           THEN StartTool(c, idx[c] + 1, msgs, Answered(c, outcome))
           ELSE /\ tool_message_count' = [tool_message_count EXCEPT ![c] = @ + 1]
                /\ tool_messages' = [tool_messages EXCEPT ![c] = msgs]
                /\ pending' = [pending EXCEPT ![c] = NoPending]
                /\ idx' = [idx EXCEPT ![c] = 1]
                /\ Emit(c, ToolEvent(msgs[1], tool_chain[c]))
                /\ pc' = [pc EXCEPT ![c] = "y_tool"]
                /\ calls' = Answered(c, outcome)
                /\ UNCHANGED <<exc, tool_calls, chat_request, nreq, emitted, turn_start>>
    /\ UNCHANGED <<select_arg, selected_server, messages, user_token, tool_chain>>

\* the consumer resumes after a tool result: line 236, then the next pass of
\* line 228 or back to the stream
resume_tool(c) ==
    /\ pc[c] = "y_tool"
    /\ messages' = Append(messages, Message("tool", tool_messages[c][idx[c]]))
    /\ IF idx[c] < Len(tool_messages[c])
       THEN /\ Emit(c, ToolEvent(tool_messages[c][idx[c] + 1], tool_chain[c]))
            /\ idx' = [idx EXCEPT ![c] = @ + 1]
            /\ UNCHANGED <<pc, tool_calls, tool_messages>>
       ELSE /\ pc' = [pc EXCEPT ![c] = "stream"]
            /\ idx' = [idx EXCEPT ![c] = 0]
            /\ tool_calls' = [tool_calls EXCEPT ![c] = <<>>]
            /\ tool_messages' = [tool_messages EXCEPT ![c] = <<>>]
            /\ UNCHANGED events
    /\ UNCHANGED <<select_arg, selected_server, user_token, exc, tool_chain, pending,
                   tool_message_count, chat_request, nreq, emitted, turn_start, calls>>

\* a drive loop with a recursion-depth cap
stream_end_capped(c) ==
    /\ pc[c] = "stream"
    /\ IF tool_message_count[c] > 0 /\ nreq[c] < 2
       THEN /\ Chat(c, messages)
            /\ pc' = [pc EXCEPT ![c] = "chat"]
            /\ UNCHANGED <<exc, tool_calls, idx, pending, tool_messages,
                           tool_message_count, events, emitted, turn_start>>
       ELSE Finish(c, "done", "none")
    /\ UNCHANGED <<select_arg, selected_server, messages, user_token, tool_chain, calls>>

\* the stream is exhausted: lines 238-240 recurse (and line 191 requests the
\* model again) or the generator returns
stream_end(c) ==
    /\ pc[c] = "stream"
    /\ IF tool_message_count[c] > 0
       THEN /\ Chat(c, messages)
            /\ pc' = [pc EXCEPT ![c] = "chat"]
            /\ UNCHANGED <<exc, tool_calls, idx, pending, tool_messages,
                           tool_message_count, events, emitted, turn_start>>
       ELSE Finish(c, "done", "none")
    /\ UNCHANGED <<select_arg, selected_server, messages, user_token, tool_chain, calls>>

(***************************************************************************)
(* Specification: one consumer, which iterates every stream to its end     *)
(***************************************************************************)
\* the steps of consumer c and of its generator, the consumer sending messages
\* of msgs with tokens of toks and the model streaming fragments of parts
StepOn(c, msgs, toks, parts) ==
    \/ \E message \in msgs, token \in toks : process_message(c, message, token)
    \/ chat_returns(c)
    \/ chat_raises(c)
    \/ \E part \in parts : stream_part(c, part)
    \/ stream_raises(c)
    \/ stream_end(c)
    \/ resume_assistant(c)
    \/ resume_status(c)
    \/ \E outcome \in Outcomes : call_tool_returns(c, outcome)
    \/ resume_tool(c)

Step(c) == StepOn(c, UserMessages, TokensOf(c), Parts)

Control(by) ==
    \/ prepare_prompt(by)
    \/ \E names \in SelectChoices : select_server(by, names)

Next == \E c \in Solo : Control(c) \/ Step(c)

Spec == Init /\ [][Next]_vars

(***************************************************************************)
(* Specification: one consumer and a model that asks for a tool whose       *)
(* native name contains the separator                                      *)
(***************************************************************************)
NextSlash ==
    \E c \in Solo :
        Control(c) \/ StepOn(c, UserMessages, TokensOf(c), PartsSlash)

SpecSlash == Init /\ [][NextSlash]_vars

(***************************************************************************)
(* Specification: two consumers of the same client, whose process_message  *)
(* calls interleave at the awaits and yields                               *)
(***************************************************************************)
NextConc ==
    \E c \in Tasks :
        prepare_prompt(c) \/ StepOn(c, UserMessagesOf(c), TokensConc(c), PartsConcOf(c))

SpecConc == Init /\ [][NextConc]_vars

(***************************************************************************)
(* Specification: one consumer, which may abandon a stream at any event     *)
(* and send a new message                                                  *)
(***************************************************************************)
NextAbandon ==
    \E c \in Solo :
        \/ prepare_prompt(c)
        \/ aclose(c)
        \/ StepOn(c, UserMessagesAbandon, TokensOf(c) \ { <<>> }, PartsAbandon)

SpecAbandon == Init /\ [][NextAbandon]_vars

TypeOK ==
    /\ \A c \in Tasks : pc[c] \in {"idle", "chat", "stream", "y_assistant", "y_status",
                                   "tool", "y_tool", "done", "raised", "closed"}
    /\ Len(messages) <= 1 + Cardinality(Tasks) * (MaxUserMsgs + MaxToolMsgs)

(***************************************************************************)
(* Properties                                                              *)
(***************************************************************************)
\* the events of the current model turn of call c
TurnEvents(c) == SubSeq(events[c], turn_start[c] + 1, Len(events[c]))

IsStatus(event) == event.role = "status" /\ event.tool_status = Some("calling")

\* the tool names of the status events of evs, in order
StatusNames(evs) ==
    LET statuses == SelectSeq(evs, IsStatus)
    IN  [i \in 1..Len(statuses) |-> statuses[i].tool_name[1]]

IsErrorMessage(text) == text # <<>> /\ text[1] = "Error in tool: "

Lookup(d, key) == d[CHOOSE i \in 1..Len(d) : d[i].k = key].v

\* the tools of the registered providers named in S, in registry order
RECURSIVE FlattenTools(_)
FlattenTools(ss) == IF ss = <<>> THEN <<>> ELSE Head(ss).tools \o FlattenTools(Tail(ss))

ToolsOf(S) == LET Keep(srv) == srv.name \in S IN FlattenTools(SelectSeq(servers, Keep))

\* the registered tool of that qualified name declares a token field
DeclaresToken(qualified) ==
    \E t \in Range(ToolsOf(Range(ServerNames))) :
        t.name = qualified /\ Contains(t.parameters, "token")

RECURSIVE ConcatContents(_)
ConcatContents(items) ==
    IF items = <<>> THEN <<>> ELSE Head(items).content \o ConcatContents(Tail(items))

\* index of the last user message of the history, 0 if there is none
LastUser(history) ==
    IF \E i \in 1..Len(history) : history[i].role = "user"
    THEN CHOOSE i \in 1..Len(history) :
            /\ history[i].role = "user"
            /\ \A j \in (i + 1)..Len(history) : history[j].role # "user"
    ELSE 0

\* C1: in one model turn the 'calling' status events are exactly those of the
\* requests the model emitted, in request order, and all of them come before
\* any tool-result event of the turn.
C1_StatusesBeforeResults ==
    \A c \in Solo :
        LET evs == TurnEvents(c)
        IN  /\ \A i, j \in 1..Len(evs) :
                   IsStatus(evs[i]) /\ evs[j].role = "tool" => i < j
            /\ pc[c] = "stream" =>
                   StatusNames(evs) = [i \in 1..Len(emitted[c]) |-> emitted[c][i].name]

\* the call_tool request of call c that is awaiting its answer raises in this step
JustRaised(c) ==
    \E i \in 1..Len(calls) :
        /\ calls[i].task = c /\ calls[i].result = "pending"
        /\ i <= Len(calls') /\ calls'[i].result = "raised"

\* C2: when a provider raises during a batch, the batch is still carried to
\* its end: no exception of the batch reaches the consumer.
C2_ProviderErrorNeverEscapes ==
    [][\A c \in Solo :
          ( /\ pc[c] = "tool"
            /\ \/ JustRaised(c)
               \/ \E i \in 1..Len(tool_messages[c]) : IsErrorMessage(tool_messages[c][i]) )
          => pc'[c] # "raised"]_vars

\* C3: a request whose name has no separator, or whose provider is not
\* selected, never ends the drive loop with an exception.
C3_RoutingFailureRecovered ==
    \A c \in Solo : ~(pc[c] = "raised" /\ exc[c] \in {"KeyError", "IndexError"})

\* C4: with a non-empty side-channel token T held, a request whose 'token'
\* argument differs from T is sent with token = T and with every other
\* argument unchanged.
C4_TokenOverwritten ==
    \A c \in Solo :
        LET arguments == pending[c].request.arguments
            tool_args == pending[c].tool_args
        IN  ( /\ pc[c] = "tool"
              /\ TokenHeld
              /\ HasKey(arguments, <<"token">>)
              /\ Lookup(arguments, <<"token">>) # user_token[1] )
            => /\ Len(tool_args) = Len(arguments)
               /\ \A i \in 1..Len(arguments) :
                     IF arguments[i].k = <<"token">>
                     THEN tool_args[i] = [k |-> <<"token">>, v |-> user_token[1]]
                     ELSE tool_args[i] = arguments[i]

C4_Witness ==
    /\ pc[1] = "tool"
    /\ user_token = Some(<<"T1">>)
    /\ pending[1].request.arguments = ArgsBogus

\* C5: when the invoked tool declares a token field and a token is held, the
\* arguments sent carry that token, whether or not the model supplied one.
C5_TokenInjectedWhenDeclared ==
    \A c \in Solo :
        (pc[c] = "tool" /\ TokenHeld /\ DeclaresToken(pending[c].request.name))
        => /\ HasKey(pending[c].tool_args, <<"token">>)
           /\ Lookup(pending[c].tool_args, <<"token">>) = user_token[1]

\* C6: get_tools() is the concatenation, in registry order, of the tool lists
\* of the selected providers; the selection is the registered names of the
\* latest select_server argument, whatever their order; every model request
\* carries the catalog of the selection at the time of the request.
C6_CatalogIsSelection ==
    /\ get_tools(selected_server) = ToolsOf(Range(selected_server))
    /\ select_arg # None =>
           Range(selected_server) = Range(select_arg[1]) \cap Range(ServerNames)
    /\ \A c \in Solo :
           pc[c] = "chat" => chat_request[c].tools = ToolsOf(Range(selected_server))

C6_Witness ==
    /\ select_arg = Some(<< <<"ghost">>, <<"places">> >>)
    /\ pc[1] = "chat"
    /\ Len(chat_request[1].tools) = 2

\* C7: a call the model answers without any tool call yields assistant events
\* only, and at its end the history holds, after the user message, the
\* assistant fragments of the answer.
C7_AnswerKeptInHistory ==
    [][\A c \in Solo :
          ( /\ pc[c] = "stream" /\ pc'[c] = "done"
            /\ nreq[c] = 1 /\ emitted[c] = <<>>
            /\ LastUser(messages) > 0 )
          => LET answer == SubSeq(messages, LastUser(messages) + 1, Len(messages))
             IN  /\ \A i \in 1..Len(events[c]) : events[c][i].role = "assistant"
                 /\ \A i \in 1..Len(answer) : answer[i].role = "assistant"
                 /\ ConcatContents(answer) = ConcatContents(events[c])]_vars

\* a tool call was dispatched in the current model turn of call c
DispatchedInTurn(c) ==
    \E i \in 1..Len(TurnEvents(c)) : TurnEvents(c)[i].role = "tool"

\* C8: when a model stream ends, the model is requested again if and only if
\* a tool call was dispatched in that turn, whatever the number of requests
\* made so far, and otherwise the event stream ends; the model is requested
\* again at no other moment.
C8_RecurseIffToolCalls ==
    [][\A c \in Solo :
          /\ (pc[c] = "stream" /\ pc'[c] \in {"chat", "done"}) =>
                IF DispatchedInTurn(c)
                THEN pc'[c] = "chat" /\ nreq'[c] = nreq[c] + 1
                ELSE pc'[c] = "done"
          /\ (nreq[c] >= 1 /\ nreq'[c] > nreq[c]) =>
                pc[c] = "stream" /\ DispatchedInTurn(c)]_vars

C8_Witness == pc[1] = "chat" /\ nreq[1] = 3

\* C9: once the model capability has failed in a call, the call is over: its
\* generator has raised, and it emits no event, dispatches no tool and
\* requests the model no more.
C9_ModelFailureIsTerminal ==
    [][\A c \in Solo :
          exc'[c] = "ModelError" =>
              /\ pc'[c] = "raised"
              /\ events'[c] = <<>>
              /\ nreq'[c] = 0
              /\ Len(calls') <= Len(calls)]_vars

C9_Witness == pc[1] = "raised" /\ exc[1] = "ModelError" /\ calls # <<>>

\* C10: select_server with a name that is not registered leaves the active
\* set unchanged.
C10_UnknownNameRejected ==
    [][( /\ select_arg' # select_arg
         /\ \E n \in Range(select_arg'[1]) : n \notin Range(ServerNames) )
       => selected_server' = selected_server]_vars

\* x occurs in text as a contiguous run of lexemes
IsSubSeq(x, text) ==
    \E i \in 0..(Len(text) - Len(x)) : SubSeq(text, i + 1, i + Len(x)) = x

\* C11: no message of the history other than a user message contains a token
\* value passed to process_message.
C11_TokenNotInHistory ==
    \A c \in Solo : \A i \in 1..Len(messages) :
        messages[i].role # "user" =>
            \A t \in TokensOf(c) \ { <<>> } : ~IsSubSeq(t, messages[i].content)

\* C12: when _tool_call returns, the message of every request that a provider
\* answered contains the qualified name, the arguments that were sent and the
\* provider's text; that message is what is appended to the history.
C12_ToolMessageEmbedsCall ==
    [][\A c \in Solo :
          /\ (pc[c] = "tool" /\ pc'[c] = "y_tool") =>
                LET n == Len(tool_calls[c])
                IN  /\ Len(tool_messages'[c]) = n
                    /\ Len(calls') >= n
                    /\ \A i \in 1..n :
                          LET e == calls'[Len(calls') - n + i]
                              m == tool_messages'[c][i]
                          IN  e.result = "returned" =>
                                  /\ IsSubSeq(e.sent.request.name, m)
                                  /\ IsSubSeq(PyStr(e.sent.tool_args), m)
                                  /\ IsSubSeq(e.text, m)
          /\ (pc[c] = "y_tool" /\ <<pc[c], idx[c]>> # <<pc'[c], idx'[c]>>) =>
                messages' = Append(messages, Message("tool", tool_messages[c][idx[c]]))]_vars

C12_Witness ==
    \E i \in 1..Len(messages) :
        /\ messages[i].role = "tool"
        /\ messages[i].content[1] = "tool: "
        /\ Contains(messages[i].content, "T1")

IsToolEvent(event) == event.role = "tool"

\* C14: between two fragments of a model stream, every request the fragments
\* carried so far has been dispatched once, in the order received: the turn
\* has one tool-result event per request, the i-th for the i-th request.
C14_EveryRequestDispatched ==
    \A c \in Solo :
        pc[c] = "stream" =>
            LET results == SelectSeq(TurnEvents(c), IsToolEvent)
            IN  /\ Len(results) = Len(emitted[c])
                /\ \A i \in 1..Len(results) :
                      IsSubSeq(emitted[c][i].name, results[i].content)

\* C16: a 'calling' status event for n and the tool-result event of the call
\* of n carry tool_chain = toolChain + [n]; an assistant chunk carries
\* toolChain.
C16_EventsTagged ==
    \A c \in Solo : \A i \in 1..Len(events[c]) :
        LET event == events[c][i]
        IN  /\ IsStatus(event) =>
                  event.tool_chain = Some(Append(tool_chain[c], event.tool_name[1]))
            /\ IsToolEvent(event) =>
                  /\ event.tool_chain # None
                  /\ \E request \in Requests :
                        /\ event.tool_chain[1] = Append(tool_chain[c], request.name)
                        /\ IsSubSeq(request.name, event.content)
            /\ event.role = "assistant" =>
                  event.tool_chain \in {None, Some(tool_chain[c])}

\* the part of a qualified name before its first "/"
ProviderPrefix(qualified) ==
    LET before == { n \in 0..Len(qualified) : \A j \in 1..n : qualified[j] # "/" }
        n == CHOOSE m \in before : \A k \in before : k <= m
    IN  SubSeq(qualified, 1, n)

\* C17: a request awaiting its provider was sent over the channel of the
\* provider named by the prefix of its qualified name, and that provider is in
\* the active set; every request sent so far went to the provider it names.
C17_SentToNamedSelectedProvider ==
    /\ \A c \in Solo :
          pc[c] = "tool" =>
              /\ pending[c].session = ProviderPrefix(pending[c].request.name)
              /\ pending[c].session \in Range(selected_server)
    /\ \A i \in 1..Len(calls) :
          calls[i].sent.session = ProviderPrefix(calls[i].sent.request.name)

C17_Witness ==
    /\ pc[1] = "tool"
    /\ selected_server = << <<"places">> >>
    /\ pending[1].session = <<"places">>

\* C20: a call to a tool that declares no token field is sent exactly the
\* arguments the model supplied.
C20_TokenOnlyWhenDeclared ==
    \A c \in Solo :
        (pc[c] = "tool" /\ ~DeclaresToken(pending[c].request.name))
        => pending[c].tool_args = pending[c].request.arguments

\* C19: a step leaves the history unchanged, or appends one message to it,
\* or resets it to exactly one system message with the token cleared.  The
\* step that starts a process_message call appends one user message and
\* sends the first model request with it; every other appended message is a
\* tool message appended as the generator resumes after a tool-result event.
C19_HistoryAppendOnly ==
    [][/\ \/ messages' = messages
          \/ /\ messages' = << Message("system", SYSTEM_PROMPT) >>
             /\ user_token' = Some(<<>>)
             /\ pc' = pc
          \/ /\ Len(messages') = Len(messages) + 1
             /\ SubSeq(messages', 1, Len(messages)) = messages
             /\ LET new == messages'[Len(messages')]
                IN  \/ /\ new.role = "user"
                       /\ \E c \in Solo :
                             /\ pc[c] \in {"idle", "done", "raised", "closed"}
                             /\ pc'[c] = "chat"
                       /\ \A c \in Solo : pc[c] \notin {"chat", "stream", "tool"}
                    \/ /\ new.role = "tool"
                       /\ \E c \in Solo :
                             /\ pc[c] = "y_tool"
                             /\ <<pc[c], idx[c]>> # <<pc'[c], idx'[c]>>
       /\ \A c \in Solo :
             (pc[c] \in {"idle", "done", "raised", "closed"} /\ pc'[c] = "chat") =>
                 /\ Len(messages') = Len(messages) + 1
                 /\ messages'[Len(messages')].role = "user"
                 /\ nreq'[c] = 1
                 /\ chat_request'[c].messages = messages']_vars

C19_Witness ==
    /\ Len(messages) = 4
    /\ messages[1] = Message("system", SYSTEM_PROMPT)
    /\ messages[2].role = "user"
    /\ messages[4].role = "tool"

\* C15: the requests of a batch are invoked one after the other in request
\* order and the batch ends with one message per request; the i-th tool-result
\* event and the i-th appended message are those of the i-th request; the
\* recursive model request is sent the history with all of them appended.
C15_BatchInOrder ==
    [][\A c \in Solo :
          /\ pc[c] = "tool" =>
                IF idx[c] < Len(tool_calls[c])
                THEN /\ pc'[c] = "tool"
                     /\ idx'[c] = idx[c] + 1
                     /\ pending'[c].request = tool_calls[c][idx[c] + 1]
                ELSE /\ pc'[c] = "y_tool"
                     /\ Len(tool_messages'[c]) = Len(tool_calls[c])
          /\ (pc[c] = "y_tool" /\ <<pc[c], idx[c]>> # <<pc'[c], idx'[c]>>) =>
                LET text == tool_messages[c][idx[c]]
                IN  /\ IsSubSeq(tool_calls[c][idx[c]].name, text)
                    /\ events[c][Len(events[c])] = ToolEvent(text, tool_chain[c])
                    /\ messages' = Append(messages, Message("tool", text))
          /\ (pc[c] = "stream" /\ pc'[c] = "chat") =>
                chat_request'[c].messages = messages]_vars

\* C13: with two process_message calls in flight on the client, no tool call
\* dispatched for one call carries the token given to the other, and the
\* history sent to the model for one call holds no user message of the other.
C13_CallsIndependent ==
    /\ \A i \in 1..Len(calls) :
          LET tool_args == calls[i].sent.tool_args
          IN  HasKey(tool_args, <<"token">>) =>
                  \A d \in Tasks \ {calls[i].task} :
                      Lookup(tool_args, <<"token">>) \notin TokensConc(d)
    /\ \A c \in Tasks : \A i \in 1..Len(chat_request[c].messages) :
          LET m == chat_request[c].messages[i]
          IN  m.role = "user" => m.content \in UserMessagesOf(c)

\* C18: the session is that of the part of the qualified name before its
\* first "/", and the tool name sent to the provider is the whole remainder:
\* the native name that _connect_client qualified.
C18_SplitOnFirstSeparator ==
    \A c \in Solo :
        pc[c] = "tool" =>
            LET qualified == pending[c].request.name
                p == ProviderPrefix(qualified)
            IN  /\ pending[c].session = p
                /\ pending[c].tool_name = SubSeq(qualified, Len(p) + 2, Len(qualified))
                /\ \A i \in 1..Len(Config) : \A t \in Range(Config[i].tools) :
                      Config[i].name \o <<"/">> \o t.name = qualified =>
                          pending[c].tool_name = t.name

IsToolMessage(m) == m.role = "tool"

\* C21: whenever the model is requested, the history sent holds one tool
\* message for every tool call invoked on a provider since the last
\* prepare_prompt, in invocation order: they are its last tool messages.
C21_NoExecutedCallLost ==
    \A c \in Solo :
        pc[c] = "chat" =>
            LET transcript == SelectSeq(chat_request[c].messages, IsToolMessage)
                first == Len(transcript) - Len(calls)
            IN  /\ Len(transcript) >= Len(calls)
                /\ \A i \in 1..Len(calls) :
                      LET text == transcript[first + i].content
                      IN  /\ IsSubSeq(calls[i].sent.request.name, text)
                          /\ IsSubSeq(PyStr(calls[i].sent.tool_args), text)

====
